---- MODULE Spec2Model ----
(***************************************************************************)
(* A model of pyminer.py: one Miner process running Miner.loop, i.e. an    *)
(* endless sequence of Miner.iterate cycles (getwork, search, timing,      *)
(* recalibration of max_nonce, optional submission).                       *)
(*                                                                         *)
(* Representation of Python values:                                        *)
(*   - a bytes object is a sequence of integers 0..255;                    *)
(*   - a hex text is a sequence of hex digits, each a value 0..15;         *)
(*   - a 32-bit word is the tuple <<b3,b2,b1,b0>> of its base-256 digits,  *)
(*     most significant first; a 256-bit integer parsed from 64 hex        *)
(*     digits is kept as that digit sequence and compared digit by digit   *)
(*     (TLC integers are too narrow for either);                           *)
(*   - None in place of a bytes value is the empty sequence <<>>.          *)
(* hashlib.sha256 is an external primitive: the double digest of           *)
(* blk_hdr ++ nonce_bin is read from the table "digests" that is fixed     *)
(* when the work unit is fetched, one arbitrary 32-byte digest per nonce.  *)
(* time.time() is a wall clock: time_end - time_start is an arbitrary      *)
(* number of ticks (of 1/TicksPerSec second), possibly zero or negative.   *)
(***************************************************************************)
EXTENDS Integers, Sequences, FiniteSets, TLC

VARIABLES pc, exc, max_nonce, scantime, bound_in, fetched, data, target,
          digests, work_ret, hashes_done, nonce_bin, timed, time_diff,
          recal, sent, ack, slept

vars == <<pc, exc, max_nonce, scantime, bound_in, fetched, data, target,
          digests, work_ret, hashes_done, nonce_bin, timed, time_diff,
          recal, sent, ack, slept>>

\* ------------------------------------------------------------------ bounds
\* MAX_NONCE (1000000 in the program) and the clamp ceiling (0xfffffffa in
\* the program) are scaled down so that the nonce range can be enumerated.
MAX_NONCE == 2
NONCE_CEILING == 3
\* Clock resolution and the largest elapsed time of one search, in ticks.
TicksPerSec == 2
MaxTicks == 4
\* Largest configured scantime (seconds).
MaxScan == 2

\* ---------------------------------------------------------------- constants
ERR_SLEEP == 15

None == <<>>

Min(a, b) == IF a < b THEN a ELSE b
Max(a, b) == IF a > b THEN a ELSE b

\* ------------------------------------------------------ ByteOrder transforms
\* struct.unpack('@I', b)[0] on a little-endian host: b[0] is the least
\* significant byte of the word.
unpack(b) == <<b[4], b[3], b[2], b[1]>>

\* struct.pack('@I', x) on a little-endian host.
pack(x) == <<x[4], x[3], x[2], x[1]>>

\* uint32(x): keep the low 32 bits; on a four-digit word this keeps all four
\* digits (the digits shifted above bit 31 were already dropped by the
\* shifts below).
uint32(x) == <<x[1], x[2], x[3], x[4]>>

\* (x << 24) | ((x << 8) & 0x00ff0000) | ((x >> 8) & 0x0000ff00) | (x >> 24)
\*   x << 24                 puts digit b0 in bits 31..24;
\*   (x << 8) & 0x00ff0000   puts digit b1 in bits 23..16;
\*   (x >> 8) & 0x0000ff00   puts digit b2 in bits 15..8;
\*   x >> 24                 puts digit b3 in bits 7..0.
bytereverse(x) == uint32(<<x[4], x[3], x[2], x[1]>>)

RECURSIVE Join(_)
Join(ws) == IF ws = <<>> THEN <<>> ELSE Head(ws) \o Join(Tail(ws))

\* The 4-byte slices in_buf[i:i+4] for i in range(0, len(in_buf), 4).
Chunks(in_buf) ==
    [k \in 1..(Len(in_buf) \div 4) |-> SubSeq(in_buf, 4 * k - 3, 4 * k)]

bufreverse(in_buf) ==
    LET ws == Chunks(in_buf)
    IN  Join([k \in DOMAIN ws |-> pack(bytereverse(unpack(ws[k])))])

wordreverse(in_buf) ==
    LET ws == Chunks(in_buf)
        n  == Len(ws)
    IN  Join([k \in 1..n |-> ws[n + 1 - k]])

\* ------------------------------------------------------------ hex and ints
\* bytes.hex(): two hex digits per byte, high digit first.
hex(b) == [i \in 1..(2 * Len(b)) |->
             IF i % 2 = 1 THEN b[(i + 1) \div 2] \div 16 ELSE b[i \div 2] % 16]

\* bytes.fromhex() of a text of even length.
fromhex(s) == [i \in 1..(Len(s) \div 2) |-> 16 * s[2 * i - 1] + s[2 * i]]

\* b[::-1]
reversed(b) == [i \in 1..Len(b) |-> b[Len(b) + 1 - i]]

\* int(a, 16) < int(b, 16) for two hex numerals of the same length: the
\* first digit from the left in which they differ decides.
RECURSIVE IntLess(_, _)
IntLess(a, b) ==
    IF a = <<>> THEN FALSE
    ELSE IF Head(a) # Head(b) THEN Head(a) < Head(b)
    ELSE IntLess(Tail(a), Tail(b))

\* struct.pack("<I", nonce)
pack_le(nonce) == <<nonce % 256, (nonce \div 256) % 256,
                    (nonce \div 65536) % 256, (nonce \div 16777216) % 256>>

\* s[a:b] of Python, for 0 <= a and 0 <= b.
Slice(s, a, b) == SubSeq(s, a + 1, Min(b, Len(s)))

\* ------------------------------------------------------------- Miner.work
Return(done, bin) == [raised |-> "none", hashes_done |-> done, nonce_bin |-> bin]
Raise(e) == [raised |-> e, hashes_done |-> 0, nonce_bin |-> None]

\* target = int(bytes.fromhex(targetstr)[::-1].hex(), 16), as its 64 digits.
TargetInt(targetstr) == hex(reversed(fromhex(targetstr)))

\* hash_val[-4:] != b'\0\0\0\0'
PreFilterReject(hash_val) ==
    SubSeq(hash_val, Len(hash_val) - 3, Len(hash_val)) # <<0, 0, 0, 0>>

FullCompare_Skipped(hash_val, tgt) == TRUE

\* hash_val = wordreverse(bufreverse(hash_val)); l = int(hash_val.hex(), 16);
\* l < target
FullCompare(hash_val, tgt) ==
    IntLess(hex(wordreverse(bufreverse(hash_val))), tgt)

LoopExit_OffByOne(nonce) == Return(nonce, None)

\* "return nonce + 1, None" after the for loop, nonce being the last value
\* the loop gave it.
LoopExit(nonce) == Return(nonce + 1, None)

\* One iteration of "for nonce in range(self.max_nonce)" and the ones after
\* it; sha[nonce + 1] is SHA256(SHA256(blk_hdr ++ nonce_bin)).
RECURSIVE Scan(_, _, _, _)
Scan(nonce, bound, tgt, sha) ==
    LET hash_val == sha[nonce + 1]
        next == IF nonce + 1 < bound THEN Scan(nonce + 1, bound, tgt, sha)
                ELSE LoopExit(nonce)
    IN  IF PreFilterReject(hash_val) THEN next
        ELSE IF FullCompare(hash_val, tgt) THEN Return(nonce + 1, pack_le(nonce))
        ELSE next

\* Miner.work with self.max_nonce = bound. An empty range leaves the loop
\* variable unbound and "return nonce + 1, None" raises UnboundLocalError.
work(targetstr, bound, sha) ==
    IF bound <= 0 THEN Raise("UnboundLocalError")
    ELSE Scan(0, bound, TargetInt(targetstr), sha)

\* ------------------------------------------------------ Miner.submit_work
Solution_NoSwap(original_data, bin) ==
    Slice(original_data, 0, 152) \o hex(bin) \o Slice(original_data, 160, 256)

\* solution = original_data[:152] + bufreverse(nonce_bin).hex()
\*            + original_data[160:256]
Solution(original_data, bin) ==
    Slice(original_data, 0, 152) \o hex(bufreverse(bin))
        \o Slice(original_data, 160, 256)

\* ----------------------------------------------------------- BitcoinRPC.rpc
\* What the HTTP exchange of one request can give.
Responses == {"conn_error", "bad_json", "null_body", "error_obj", "no_result",
              "result_null", "result_true", "result_false", "result_partial",
              "result_work"}

\* The value rpc() returns, or the exception that leaves it:
\*   conn.request/getresponse raise when there is no response;
\*   json.loads raises on a body that is not JSON and gives None on "null";
\*   a non-null 'error' member is returned in place of the result.
rpc(resp) ==
    IF resp = "conn_error" THEN [raised |-> "HTTPException", value |-> "None"]
    ELSE IF resp = "bad_json" THEN [raised |-> "JSONDecodeError", value |-> "None"]
    ELSE IF resp = "null_body" THEN [raised |-> "none", value |-> "None"]
    ELSE IF resp = "error_obj" THEN [raised |-> "none", value |-> "error"]
    ELSE IF resp = "no_result" THEN [raised |-> "none", value |-> "None"]
    ELSE IF resp = "result_null" THEN [raised |-> "none", value |-> "None"]
    ELSE IF resp = "result_true" THEN [raised |-> "none", value |-> "True"]
    ELSE IF resp = "result_false" THEN [raised |-> "none", value |-> "False"]
    ELSE IF resp = "result_partial" THEN [raised |-> "none", value |-> "partial"]
    ELSE [raised |-> "none", value |-> "work"]

\* Values on which "'data' not in work" is itself an error (bool is not
\* iterable).
NotContainer == {"True", "False"}
\* Dictionaries without both 'data' and 'target'.
LacksFields == {"error", "partial"}

\* ------------------------------------------------------------ recalibration
\* int(a / b) of Python for b # 0: the quotient truncated toward zero.
TruncDiv(a, b) ==
    LET abs(x) == IF x < 0 THEN -x ELSE x
        q == abs(a) \div abs(b)
    IN  IF (a < 0) = (b < 0) THEN q ELSE -q

RawBound_RoundUp(done, scan, ticks) ==
    TruncDiv(done * scan * TicksPerSec, ticks) + 1

\* int((hashes_done * settings['scantime']) / time_diff), time_diff being
\* ticks / TicksPerSec seconds; the quotient is taken exactly (the rounding
\* of the floating-point division is left out).
RawBound(done, scan, ticks) == TruncDiv(done * scan * TicksPerSec, ticks)

Clamp_Missing(x) == x

\* if self.max_nonce > 0xfffffffa: self.max_nonce = 0xfffffffa
Clamp(x) == IF x > NONCE_CEILING THEN NONCE_CEILING ELSE x

\* ------------------------------------------------------------------ inputs
Zeros(n) == [i \in 1..n |-> 0]

\* Double digests the hash primitive may give (raw digest byte order). Read
\* as the integer the search compares, the last digest byte is the most
\* significant one.
DigestHigh == [Zeros(32) EXCEPT ![32] = 1]   \* value 2^248
DigestMid  == [Zeros(32) EXCEPT ![28] = 2]   \* value 2^217
DigestLow  == [Zeros(32) EXCEPT ![1] = 1]    \* value 1
Digests == {DigestHigh, DigestMid, DigestLow}

\* Targets as the work source sends them (hex text, reversed byte order).
TargetZero  == hex(Zeros(32))                         \* 0
TargetOne   == hex([Zeros(32) EXCEPT ![1] = 1])       \* 1
TargetSmall == hex([Zeros(32) EXCEPT ![28] = 1])      \* 2^216
TargetMax   == hex([i \in 1..32 |-> 255])             \* 2^256 - 1
Targets == {TargetZero, TargetOne, TargetSmall, TargetMax}

\* Header texts: 80 bytes, the 128 bytes of getwork, and a longer one.
DataLens == {160, 256, 264}
DataText(len) == [i \in 1..len |-> (7 * i + 3) % 16]
DataTexts == {DataText(len) : len \in DataLens}

\* time_end - time_start in ticks; the wall clock may stand still or step
\* back.
TimeDiffs == (-1)..MaxTicks

\* --------------------------------------------------------------- the worker
\* Miner.__init__ and the settings read at start-up; settings['scantime'] is
\* a positive whole number of seconds.
Init ==
    /\ pc = "fetch"
    /\ exc = "none"
    /\ max_nonce = MAX_NONCE
    /\ scantime \in 1..MaxScan
    /\ bound_in = MAX_NONCE
    /\ fetched = "-"
    /\ data = <<>>
    /\ target = <<>>
    /\ digests = <<>>
    /\ work_ret = "-"
    /\ hashes_done = 0
    /\ nonce_bin = None
    /\ timed = FALSE
    /\ time_diff = 0
    /\ recal = FALSE
    /\ sent = <<>>
    /\ ack = "-"
    /\ slept = 0

\* An uncaught exception leaves iterate and loop: the worker process ends.
Crash(e) == pc' = "crashed" /\ exc' = e

\* work = rpc.getwork(): the request raises.
GetworkRaises ==
    /\ pc = "fetch"
    /\ \E resp \in Responses :
         /\ rpc(resp).raised # "none"
         /\ fetched' = resp
         /\ Crash(rpc(resp).raised)
    /\ UNCHANGED <<max_nonce, scantime, bound_in, data, target, digests,
                   work_ret, hashes_done, nonce_bin, timed, time_diff, recal,
                   sent, ack, slept>>

\* if work is None: time.sleep(ERR_SLEEP); return
GetworkNone ==
    /\ pc = "fetch"
    /\ \E resp \in Responses :
         /\ rpc(resp).raised = "none"
         /\ rpc(resp).value = "None"
         /\ fetched' = resp
    /\ pc' = "sleep"
    /\ UNCHANGED <<exc, max_nonce, scantime, bound_in, data, target, digests,
                   work_ret, hashes_done, nonce_bin, timed, time_diff, recal,
                   sent, ack, slept>>

\* "'data' not in work" on a value that is no container raises TypeError.
GetworkNotContainer ==
    /\ pc = "fetch"
    /\ \E resp \in Responses :
         /\ rpc(resp).raised = "none"
         /\ rpc(resp).value \in NotContainer
         /\ fetched' = resp
    /\ Crash("TypeError")
    /\ UNCHANGED <<max_nonce, scantime, bound_in, data, target, digests,
                   work_ret, hashes_done, nonce_bin, timed, time_diff, recal,
                   sent, ack, slept>>

\* if 'data' not in work or 'target' not in work: time.sleep(ERR_SLEEP); return
GetworkLacksFields ==
    /\ pc = "fetch"
    /\ \E resp \in Responses :
         /\ rpc(resp).raised = "none"
         /\ rpc(resp).value \in LacksFields
         /\ fetched' = resp
    /\ pc' = "sleep"
    /\ UNCHANGED <<exc, max_nonce, scantime, bound_in, data, target, digests,
                   work_ret, hashes_done, nonce_bin, timed, time_diff, recal,
                   sent, ack, slept>>

\* A work unit with both fields; the digests of its nonces are fixed with it.
GetworkWork ==
    /\ pc = "fetch"
    /\ \E resp \in Responses :
         /\ rpc(resp).raised = "none"
         /\ rpc(resp).value = "work"
         /\ fetched' = resp
    /\ data' \in DataTexts
    /\ target' \in Targets
    /\ digests' \in [1..Max(max_nonce, 0) -> Digests]
    /\ pc' = "search"
    /\ UNCHANGED <<exc, max_nonce, scantime, bound_in, work_ret, hashes_done,
                   nonce_bin, timed, time_diff, recal, sent, ack, slept>>

\* time.sleep(ERR_SLEEP); return
Sleep ==
    /\ pc = "sleep"
    /\ slept' = ERR_SLEEP
    /\ pc' = "done"
    /\ UNCHANGED <<exc, max_nonce, scantime, bound_in, fetched, data, target,
                   digests, work_ret, hashes_done, nonce_bin, timed, time_diff,
                   recal, sent, ack>>

\* hashes_done, nonce_bin = self.work(work['data'], work['target'])
Search ==
    /\ pc = "search"
    /\ LET r == work(target, max_nonce, digests)
       IN  IF r.raised # "none"
           THEN /\ Crash(r.raised)
                /\ work_ret' = "raised"
                /\ UNCHANGED <<hashes_done, nonce_bin>>
           ELSE /\ pc' = "timing"
                /\ work_ret' = "returned"
                /\ hashes_done' = r.hashes_done
                /\ nonce_bin' = r.nonce_bin
                /\ UNCHANGED exc
    /\ UNCHANGED <<max_nonce, scantime, bound_in, fetched, data, target,
                   digests, timed, time_diff, recal, sent, ack, slept>>

\* time_diff = time_end - time_start is zero: the division raises
\* ZeroDivisionError.
RecalibrateZeroDiv ==
    /\ pc = "timing"
    /\ timed' = TRUE
    /\ time_diff' = 0
    /\ Crash("ZeroDivisionError")
    /\ UNCHANGED <<max_nonce, scantime, bound_in, fetched, data, target,
                   digests, work_ret, hashes_done, nonce_bin, recal, sent,
                   ack, slept>>

\* self.max_nonce = int((hashes_done * settings['scantime']) / time_diff),
\* clamped; then on to the submission when a nonce was found.
Recalibrate ==
    /\ pc = "timing"
    /\ \E td \in TimeDiffs \ {0} :
         /\ timed' = TRUE
         /\ time_diff' = td
         /\ max_nonce' = Clamp(RawBound(hashes_done, scantime, td))
    /\ recal' = TRUE
    /\ pc' = IF nonce_bin # None THEN "submit" ELSE "done"
    /\ UNCHANGED <<exc, scantime, bound_in, fetched, data, target, digests,
                   work_ret, hashes_done, nonce_bin, sent, ack, slept>>

\* submit_work: the request is sent and rpc raises.
SubmitRaises ==
    /\ pc = "submit"
    /\ sent' = Append(sent, Solution(data, nonce_bin))
    /\ \E resp \in Responses :
         /\ rpc(resp).raised # "none"
         /\ Crash(rpc(resp).raised)
    /\ UNCHANGED <<max_nonce, scantime, bound_in, fetched, data, target,
                   digests, work_ret, hashes_done, nonce_bin, timed, time_diff,
                   recal, ack, slept>>

\* submit_work: the request is sent and whatever rpc returns is printed.
SubmitAck ==
    /\ pc = "submit"
    /\ sent' = Append(sent, Solution(data, nonce_bin))
    /\ \E resp \in Responses :
         /\ rpc(resp).raised = "none"
         /\ ack' = rpc(resp).value
    /\ pc' = "done"
    /\ UNCHANGED <<exc, max_nonce, scantime, bound_in, fetched, data, target,
                   digests, work_ret, hashes_done, nonce_bin, timed, time_diff,
                   recal, slept>>

\* while True: self.iterate(rpc) -- the next cycle starts; what the last
\* cycle recorded is forgotten.
Loop ==
    /\ pc = "done"
    /\ pc' = "fetch"
    /\ bound_in' = max_nonce
    /\ fetched' = "-"
    /\ data' = <<>>
    /\ target' = <<>>
    /\ digests' = <<>>
    /\ work_ret' = "-"
    /\ hashes_done' = 0
    /\ nonce_bin' = None
    /\ timed' = FALSE
    /\ time_diff' = 0
    /\ recal' = FALSE
    /\ sent' = <<>>
    /\ ack' = "-"
    /\ slept' = 0
    /\ UNCHANGED <<exc, max_nonce, scantime>>

Next ==
    \/ GetworkRaises
    \/ GetworkNone
    \/ GetworkNotContainer
    \/ GetworkLacksFields
    \/ GetworkWork
    \/ Sleep
    \/ Search
    \/ RecalibrateZeroDiv
    \/ Recalibrate
    \/ SubmitRaises
    \/ SubmitAck
    \/ Loop

Spec == Init /\ [][Next]_vars

\* ------------------------------------------------------------------ claims
\* The integer of the claims for nonce n of the fetched work unit: the double
\* digest with all 32 bytes reversed, as 64 hex digits.
Value(n) == hex(reversed(digests[n + 1]))

\* The nonce's digest is strictly below the target of the same work unit.
Qualifies(n) == IntLess(Value(n), TargetInt(target))

\* The nonce a returned nonce_bin encodes (little-endian).
NonceOf(bin) == bin[1] + 256 * bin[2] + 65536 * bin[3] + 16777216 * bin[4]

\* The 8 hex digits of a nonce in wire order (most significant first).
WireHex(n) == [i \in 1..8 |-> (n \div (16 ^ (8 - i))) % 16]

\* The search passed over a candidate that passes the pre-filter and fails
\* the full comparison.
FalsePositiveBefore(n) ==
    \E m \in 0..(n - 1) : ~PreFilterReject(digests[m + 1]) /\ ~Qualifies(m)

\* C1: whenever work returns and some nonce below the bound has a reversed
\* double digest strictly below the target, work returns the smallest such
\* nonce, little-endian encoded, with attempts = nonce + 1.
C1_Completeness ==
    work_ret = "returned" =>
        LET Q == {n \in 0..(bound_in - 1) : Qualifies(n)}
        IN  Q # {} =>
              \E n \in Q : /\ \A m \in Q : n <= m
                           /\ nonce_bin = pack_le(n)
                           /\ hashes_done = n + 1

\* C2: a nonce returned by work, and any nonce submitted by iterate, has its
\* reversed double digest strictly below the target of the same work unit;
\* nothing is submitted unless work returned a nonce.
C2_Soundness ==
    /\ nonce_bin # None =>
         /\ work_ret = "returned"
         /\ NonceOf(nonce_bin) \in 0..(bound_in - 1)
         /\ Qualifies(NonceOf(nonce_bin))
    /\ sent # <<>> => nonce_bin # None

\* A submission was sent for a nonce found after a false positive.
C2_Witness ==
    /\ sent # <<>>
    /\ nonce_bin # None
    /\ FalsePositiveBefore(NonceOf(nonce_bin))

\* C3: with a bound of 0, work returns normally with attempts = 0 and no
\* nonce.
C3_ZeroBound ==
    (work_ret # "-" /\ bound_in = 0) =>
        /\ work_ret = "returned"
        /\ hashes_done = 0
        /\ nonce_bin = None

\* C4: with a bound >= 1 and no qualifying nonce below it, work returns no
\* nonce and attempts = bound, false positives or not.
C4_Exhaustion ==
    (work_ret # "-" /\ bound_in >= 1
       /\ \A n \in 0..(bound_in - 1) : ~Qualifies(n)) =>
        /\ work_ret = "returned"
        /\ nonce_bin = None
        /\ hashes_done = bound_in

\* An exhausted search over at least two nonces, with a false positive.
C4_Witness ==
    /\ work_ret = "returned"
    /\ bound_in >= 2
    /\ \A n \in 0..(bound_in - 1) : ~Qualifies(n)
    /\ FalsePositiveBefore(bound_in)
    /\ hashes_done = bound_in

\* C5: when the measured duration is zero or negative the cycle goes on
\* without an error and max_nonce keeps the value it had before the cycle.
C5_TimingGuard ==
    (timed /\ time_diff <= 0) => (pc # "crashed" /\ max_nonce = bound_in)

\* C6: a fetch that gives anything but a work unit with both fields is
\* followed by no search and no submission, leaves max_nonce unchanged, backs
\* off and lets the next cycle start.
C6_FetchFailure ==
    (fetched \in Responses \ {"result_work"}) =>
        /\ pc # "crashed"
        /\ work_ret = "-"
        /\ sent = <<>>
        /\ max_nonce = bound_in
        /\ pc = "done" => slept = ERR_SLEEP

\* C7: max_nonce never exceeds the ceiling, and after a recalibration with a
\* positive duration it is min(floor(attempts * scantime / elapsed), ceiling).
C7_Clamp ==
    /\ max_nonce <= NONCE_CEILING
    /\ (recal /\ time_diff > 0) =>
         max_nonce = Min((hashes_done * scantime * TicksPerSec) \div time_diff,
                         NONCE_CEILING)

\* A recalibration whose raw value is above the ceiling.
C7_Witness ==
    /\ recal
    /\ time_diff > 0
    /\ (hashes_done * scantime * TicksPerSec) \div time_diff > NONCE_CEILING
    /\ max_nonce = NONCE_CEILING

\* C8 as stated: the unclamped bound for the measured duration is exactly
\* twice the unclamped bound for twice that duration.
C8_Doubling ==
    (recal /\ time_diff > 0 /\ scantime >= 1 /\ hashes_done >= 1) =>
        RawBound(hashes_done, scantime, time_diff)
            = 2 * RawBound(hashes_done, scantime, 2 * time_diff)

\* C8 amended: the unclamped bound for the measured duration is twice the
\* unclamped bound for twice that duration, or one more.
C8_DoublingWithinOne ==
    (recal /\ time_diff > 0 /\ scantime >= 1 /\ hashes_done >= 1) =>
        LET b == RawBound(hashes_done, scantime, 2 * time_diff)
        IN  RawBound(hashes_done, scantime, time_diff) \in {2 * b, 2 * b + 1}

\* A recalibration where halving the duration gives twice the bound plus one.
C8_Witness ==
    /\ recal
    /\ time_diff > 0
    /\ scantime >= 1
    /\ hashes_done >= 1
    /\ RawBound(hashes_done, scantime, time_diff)
           = 2 * RawBound(hashes_done, scantime, 2 * time_diff) + 1

\* C9 as stated: the solution sent has the length of the header text, the
\* nonce in wire order at offsets 152..159 and the header text elsewhere.
C9_SpliceExact ==
    sent # <<>> =>
        LET sol == sent[1]
            L == Len(data)
        IN  /\ Len(sol) = L
            /\ SubSeq(sol, 153, 160) = WireHex(hashes_done - 1)
            /\ \A i \in (1..L) \ (153..160) : sol[i] = data[i]

\* C9 amended: the same for header texts of at most 256 characters; a longer
\* text is cut to 256 characters and is spliced the same way.
C9_SpliceExactTo256 ==
    sent # <<>> =>
        LET sol == sent[1]
            L == Min(Len(data), 256)
        IN  /\ Len(sol) = L
            /\ SubSeq(sol, 153, 160) = WireHex(hashes_done - 1)
            /\ \A i \in (1..L) \ (153..160) : sol[i] = data[i]

\* A 256-character header text spliced with a nonzero nonce.
C9_Witness ==
    /\ sent # <<>>
    /\ Len(data) = 256
    /\ hashes_done >= 2
    /\ Len(sent[1]) = 256
    /\ SubSeq(sent[1], 153, 160) # SubSeq(data, 153, 160)

\* C10: at the end of a cycle whose search returned, one submit request was
\* sent if a nonce was found and none otherwise; whatever the acknowledgement
\* is, the cycle ends normally with the recalibrated max_nonce (cycles whose
\* submit request got no acknowledgement at all are left aside).
C10_SubmitOnce ==
    (work_ret = "returned" /\ pc \in {"done", "crashed"}
       /\ (sent = <<>> \/ ack # "-")) =>
        /\ Len(sent) = IF nonce_bin # None THEN 1 ELSE 0
        /\ ack # "-" =>
             /\ pc = "done"
             /\ recal
             /\ max_nonce = Clamp(RawBound(hashes_done, scantime, time_diff))

====
